---- MODULE Spec2Model ----
(***************************************************************************)
(* Model of presenterm's code execution engine (src/execute.rs):           *)
(* CodeExecuter::execute validates a code block, materialises it into a   *)
(* temporary file and spawns a child process; a ProcessReader thread       *)
(* drains the child's stdout into a lock-protected ExecutionState and      *)
(* finally writes a terminal ProcessStatus; ExecutionHandle::state takes   *)
(* snapshots of that state.                                                *)
(*                                                                         *)
(* Every variable is a function over Execs, one entry per call of          *)
(* execute: each call builds its own state, worker, child and temp file.   *)
(***************************************************************************)
EXTENDS Naturals, Sequences, FiniteSets

\* ---------------------------------------------------------------- bounds
\* Longest stdout (in lines) a modelled script produces.
MaxLines == 2
\* Most snapshots a caller takes through one handle.
MaxSnaps == 3

\* ---------------------------------------------------------------- inputs
\* The calls of execute the model tracks.
Execs == {1, 2}

\* CodeLanguage variants: the shell family and two of the others.
Languages == {"Shell", "Rust", "Unknown"}

\* Text lines a script can print.
Lines == {"a", "b"}

\* A chunk of stdout that BufRead::lines cannot decode (io::Error).
InvalidLine == "<invalid utf-8>"

StdoutItems == Lines \cup {InvalidLine}

\* Exit codes of the child: zero and one non-zero code.
ExitCodes == {0, 1}

\* What a script does when run: the items it writes to stdout, then its exit code.
Scripts == UNION {[1..n -> StdoutItems] : n \in 0..MaxLines}

Programs == [out : Scripts, exit : ExitCodes]

\* Code { contents, language, flags: CodeFlags { execute } }
Codes == [contents : Programs, language : Languages, execute : BOOLEAN]

NoCode == [contents |-> [out |-> <<>>, exit |-> 0], language |-> "Unknown", execute |-> FALSE]

\* Outcomes of NamedTempFile::new / write_all / flush (execute.rs:31-33).
TempFileOutcomes == {"ok", "create_failed", "write_failed", "flush_failed"}

NoLine == ""

\* The OS's answers before execute has been called.
NoEnv == [tf |-> "ok", spawned |-> FALSE]

VARIABLES
    code,          \* [e] the code block handed to execute
    result,        \* [e] "none" before the call, then "Ok" or the CodeExecuteError
    env,           \* [e] what the OS answered during the call: temp file, spawn
    tempFile,      \* [e] "none" | "exists" | "removed": the NamedTempFile on disk
    childState,    \* [e] "none" | "running" | "exited": the process::Child
    childStdout,   \* [e] TRUE while the child's end of the stdout pipe is open
    written,       \* [e] number of items of the script the child has written
    workerPc,      \* [e] position of the ProcessReader thread
    consumed,      \* [e] number of stdout items the worker has read
    line,          \* [e] the line the worker has read and not yet pushed
    computed,      \* [e] the status the worker computed from try_wait
    waitResult,    \* [e] what try_wait returned: "" | "Some" | "None" | "Err"
    output,        \* [e] ExecutionState.output
    status,        \* [e] ExecutionState.status
    lock,          \* [e] holder of the Mutex: "free" | "worker" | "reader"
    poisoned,      \* [e] TRUE once a thread panicked while holding the Mutex
    readerPc,      \* [e] "idle" | "locked" | "panicked": the caller inside state()
    snaps          \* [e] the snapshots state() has returned, oldest first

vars == <<code, result, env, tempFile, childState, childStdout, written, workerPc,
          consumed, line, computed, waitResult, waitResult, output, status, lock, poisoned, readerPc, snaps>>

childVars == <<childState, childStdout, written>>
workerVars == <<workerPc, consumed, line, computed, waitResult, waitResult>>
sharedVars == <<output, status, lock, poisoned>>
readerVars == <<readerPc, snaps>>
callVars == <<code, result, env>>

\* ------------------------------------------------------- pure functions

\* CodeLanguage::supports_execution: only the shell family can be executed.
supports_execution(language) == language = "Shell"

\* ProcessStatus::is_finished
is_finished(s) == s \in {"Success", "Failure"}

\* execute_shell with the result of flush discarded.
execute_shellNoFlushCheck(tf, spawned) ==
    IF tf \in {"create_failed", "write_failed"} THEN "TempFile"
    ELSE IF ~spawned THEN "SpawnProcess"
    ELSE "Ok"

\* execute_shell up to the spawn: the first failing step decides the error.
execute_shell(tf, spawned) ==
    IF tf # "ok" THEN "TempFile"
    ELSE IF ~spawned THEN "SpawnProcess"
    ELSE "Ok"

\* The checks of execute with the flag asked before the language.
executeFlagFirst(c, tf, spawned) ==
    IF ~c.execute THEN "NotExecutableCode"
    ELSE IF ~supports_execution(c.language) THEN "UnsupportedExecution"
    ELSE IF c.language = "Shell" THEN execute_shell(tf, spawned)
    ELSE "UnsupportedExecution"

\* execute without the check of the flag.
executeNoFlagCheck(c, tf, spawned) ==
    IF ~supports_execution(c.language) THEN "UnsupportedExecution"
    ELSE IF c.language = "Shell" THEN execute_shell(tf, spawned)
    ELSE "UnsupportedExecution"

\* CodeExecuter::execute: what the call returns.
execute(c, tf, spawned) ==
    IF ~supports_execution(c.language) THEN "UnsupportedExecution"
    ELSE IF ~c.execute THEN "NotExecutableCode"
    ELSE IF c.language = "Shell" THEN execute_shell(tf, spawned)
    ELSE "UnsupportedExecution"

\* State of the temp file when execute returns r: it is handed to the worker
\* on success, dropped (deleted) when a later step fails, never made otherwise.
TempFileAfter(r, tf) ==
    IF r = "Ok" THEN "exists"
    ELSE IF r = "SpawnProcess" \/ (r = "TempFile" /\ tf # "create_failed") THEN "removed"
    ELSE "none"

\* The match with every collected exit status counted as a success.
successAnyExit(outcome) == outcome.kind = "Some"

\* The match on try_wait's result (execute.rs:103-106).
success(outcome) == outcome.kind = "Some" /\ outcome.code = 0

\* The match on success (execute.rs:107-110).
StatusOf(ok) == IF ok THEN "Success" ELSE "Failure"

\* What Child::try_wait can return: Ok(None) while the child is still
\* running; once it has exited its exit status, or an OS-level error when
\* the status cannot be collected (the child was reaped elsewhere).
TryWaitOutcomes(e) ==
    IF childState[e] = "exited"
    THEN {[kind |-> "Some", code |-> code[e].contents.exit], [kind |-> "Err", code |-> 0]}
    ELSE {[kind |-> "None", code |-> 0]}

\* ExecutionState as a value (the clone state() returns).
Snapshot(e) == [output |-> output[e], status |-> status[e]]

\* ----------------------------------------------------------------- Init
Init ==
    /\ code = [e \in Execs |-> NoCode]
    /\ result = [e \in Execs |-> "none"]
    /\ env = [e \in Execs |-> NoEnv]
    /\ tempFile = [e \in Execs |-> "none"]
    /\ childState = [e \in Execs |-> "none"]
    /\ childStdout = [e \in Execs |-> FALSE]
    /\ written = [e \in Execs |-> 0]
    /\ workerPc = [e \in Execs |-> "none"]
    /\ consumed = [e \in Execs |-> 0]
    /\ line = [e \in Execs |-> NoLine]
    /\ computed = [e \in Execs |-> "Running"]
    /\ waitResult = [e \in Execs |-> ""]
    /\ output = [e \in Execs |-> <<>>]
    /\ status = [e \in Execs |-> "Running"]
    /\ lock = [e \in Execs |-> "free"]
    /\ poisoned = [e \in Execs |-> FALSE]
    /\ readerPc = [e \in Execs |-> "idle"]
    /\ snaps = [e \in Execs |-> <<>>]

\* -------------------------------------------------------------- execute
\* CodeExecuter::execute(code): validation, temp file, spawn of the child,
\* creation of the shared state and start of the ProcessReader thread.
ExecuteWith(e, codes) ==
    /\ result[e] = "none"
    /\ \E c \in codes, tf \in TempFileOutcomes, spawned \in BOOLEAN :
         LET r == execute(c, tf, spawned) IN
         /\ code' = [code EXCEPT ![e] = c]
         /\ result' = [result EXCEPT ![e] = r]
         /\ env' = [env EXCEPT ![e] = [tf |-> tf, spawned |-> spawned]]
         /\ tempFile' = [tempFile EXCEPT ![e] = TempFileAfter(r, tf)]
         /\ childState' = [childState EXCEPT ![e] = IF r = "Ok" THEN "running" ELSE "none"]
         /\ childStdout' = [childStdout EXCEPT ![e] = (r = "Ok")]
         /\ workerPc' = [workerPc EXCEPT ![e] = IF r = "Ok" THEN "run" ELSE "none"]
    /\ UNCHANGED <<written, consumed, line, computed, waitResult, sharedVars, readerVars>>

\* execute called with any code block.
Execute(e) == ExecuteWith(e, Codes)

\* ---------------------------------------------------------------- child
\* The child writes the next item of its output to the pipe.
ChildWrite(e) ==
    /\ childState[e] = "running"
    /\ childStdout[e]
    /\ written[e] < Len(code[e].contents.out)
    /\ written' = [written EXCEPT ![e] = @ + 1]
    /\ UNCHANGED <<callVars, tempFile, childState, childStdout, workerVars, sharedVars, readerVars>>

\* The child's stdout is closed: by the script, or by the kernel as the
\* process exits, in both cases before the process can be waited for.
ChildCloseStdout(e) ==
    /\ childState[e] = "running"
    /\ childStdout[e]
    /\ written[e] = Len(code[e].contents.out)
    /\ childStdout' = [childStdout EXCEPT ![e] = FALSE]
    /\ UNCHANGED <<callVars, tempFile, childState, written, workerVars, sharedVars, readerVars>>

\* The child has exited and its exit status can be collected.
ChildExit(e) ==
    /\ childState[e] = "running"
    /\ ~childStdout[e]
    /\ childState' = [childState EXCEPT ![e] = "exited"]
    /\ UNCHANGED <<callVars, tempFile, childStdout, written, workerVars, sharedVars, readerVars>>

\* -------------------------------------------------------- ProcessReader
\* ProcessReader::run, lines 100-101: take the child's stdout and wrap it.
WorkerStart(e) ==
    /\ workerPc[e] = "run"
    /\ workerPc' = [workerPc EXCEPT ![e] = "read"]
    /\ UNCHANGED <<callVars, tempFile, childVars, consumed, line, computed, waitResult, sharedVars, readerVars>>

\* process_output, one turn of `for line in stdout.lines()` with `line?`:
\* blocks until the pipe holds an item; an item that cannot be decoded makes
\* process_output return the error, which run discards.
WorkerReadLine(e) ==
    /\ workerPc[e] = "read"
    /\ consumed[e] < written[e]
    /\ LET item == code[e].contents.out[consumed[e] + 1] IN
         /\ consumed' = [consumed EXCEPT ![e] = @ + 1]
         /\ IF item = InvalidLine
            THEN /\ workerPc' = [workerPc EXCEPT ![e] = "try_wait"]
                 /\ UNCHANGED line
            ELSE /\ workerPc' = [workerPc EXCEPT ![e] = "lock_output"]
                 /\ line' = [line EXCEPT ![e] = item]
    /\ UNCHANGED <<callVars, tempFile, childVars, computed, waitResult, sharedVars, readerVars>>

\* process_output: the pipe is empty and closed, lines() ends, Ok(()).
WorkerReadEof(e) ==
    /\ workerPc[e] = "read"
    /\ consumed[e] = written[e]
    /\ ~childStdout[e]
    /\ workerPc' = [workerPc EXCEPT ![e] = "try_wait"]
    /\ UNCHANGED <<callVars, tempFile, childVars, consumed, line, computed, waitResult, sharedVars, readerVars>>

\* process_output, line 118: state.lock().unwrap()
WorkerLockOutput(e) ==
    /\ workerPc[e] = "lock_output"
    /\ lock[e] = "free"
    /\ lock' = [lock EXCEPT ![e] = "worker"]
    /\ workerPc' = [workerPc EXCEPT ![e] = "push"]
    /\ UNCHANGED <<callVars, tempFile, childVars, consumed, line, computed, waitResult, output, status, poisoned, readerVars>>

\* The push with the line inserted at the front of the output.
WorkerPushFront(e) ==
    /\ workerPc[e] = "push"
    /\ output' = [output EXCEPT ![e] = <<line[e]>> \o @]
    /\ line' = [line EXCEPT ![e] = NoLine]
    /\ lock' = [lock EXCEPT ![e] = "free"]
    /\ workerPc' = [workerPc EXCEPT ![e] = "read"]
    /\ UNCHANGED <<callVars, tempFile, childVars, consumed, computed, waitResult, status, poisoned, readerVars>>

\* The push made on a copy of the state: the shared output is not changed.
WorkerPushLost(e) ==
    /\ workerPc[e] = "push"
    /\ line' = [line EXCEPT ![e] = NoLine]
    /\ lock' = [lock EXCEPT ![e] = "free"]
    /\ workerPc' = [workerPc EXCEPT ![e] = "read"]
    /\ UNCHANGED <<callVars, tempFile, childVars, consumed, computed, waitResult, output, status, poisoned, readerVars>>

\* The push with the guard kept for the whole loop instead of one append.
WorkerPushKeepsLock(e) ==
    /\ workerPc[e] = "push"
    /\ output' = [output EXCEPT ![e] = Append(@, line[e])]
    /\ line' = [line EXCEPT ![e] = NoLine]
    /\ workerPc' = [workerPc EXCEPT ![e] = "read"]
    /\ UNCHANGED <<callVars, tempFile, childVars, consumed, computed, waitResult, status, lock, poisoned, readerVars>>

\* The push made to one state shared by every execution.
WorkerPushShared(e) ==
    /\ workerPc[e] = "push"
    /\ output' = [f \in Execs |-> Append(output[f], line[e])]
    /\ line' = [line EXCEPT ![e] = NoLine]
    /\ lock' = [lock EXCEPT ![e] = "free"]
    /\ workerPc' = [workerPc EXCEPT ![e] = "read"]
    /\ UNCHANGED <<callVars, tempFile, childVars, consumed, computed, waitResult, status, poisoned, readerVars>>

\* process_output, line 118: .output.push(line), then the guard is dropped.
WorkerPush(e) ==
    /\ workerPc[e] = "push"
    /\ output' = [output EXCEPT ![e] = Append(@, line[e])]
    /\ line' = [line EXCEPT ![e] = NoLine]
    /\ lock' = [lock EXCEPT ![e] = "free"]
    /\ workerPc' = [workerPc EXCEPT ![e] = "read"]
    /\ UNCHANGED <<callVars, tempFile, childVars, consumed, computed, waitResult, status, poisoned, readerVars>>

\* run, lines 103-110: try_wait does not block; its result decides the status.
WorkerTryWait(e) ==
    /\ workerPc[e] = "try_wait"
    /\ \E outcome \in TryWaitOutcomes(e) :
         /\ computed' = [computed EXCEPT ![e] = StatusOf(success(outcome))]
         /\ waitResult' = [waitResult EXCEPT ![e] = outcome.kind]
    /\ workerPc' = [workerPc EXCEPT ![e] = "lock_status"]
    /\ UNCHANGED <<callVars, tempFile, childVars, consumed, line, sharedVars, readerVars>>

\* run, line 111: self.state.lock().unwrap()
WorkerLockStatus(e) ==
    /\ workerPc[e] = "lock_status"
    /\ lock[e] = "free"
    /\ lock' = [lock EXCEPT ![e] = "worker"]
    /\ workerPc' = [workerPc EXCEPT ![e] = "set_status"]
    /\ UNCHANGED <<callVars, tempFile, childVars, consumed, line, computed, waitResult, output, status, poisoned, readerVars>>

\* The status write followed by more draining instead of the return.
WorkerSetStatusResumes(e) ==
    /\ workerPc[e] = "set_status"
    /\ status' = [status EXCEPT ![e] = computed[e]]
    /\ lock' = [lock EXCEPT ![e] = "free"]
    /\ workerPc' = [workerPc EXCEPT ![e] = "read"]
    /\ UNCHANGED <<callVars, tempFile, childVars, consumed, line, computed, waitResult, output, poisoned, readerVars>>

\* run, line 111: .status = status, then the guard is dropped.
WorkerSetStatus(e) ==
    /\ workerPc[e] = "set_status"
    /\ status' = [status EXCEPT ![e] = computed[e]]
    /\ lock' = [lock EXCEPT ![e] = "free"]
    /\ workerPc' = [workerPc EXCEPT ![e] = "drop"]
    /\ UNCHANGED <<callVars, tempFile, childVars, consumed, line, computed, waitResult, output, poisoned, readerVars>>

\* The return with the temp file persisted instead of deleted.
WorkerDropKeepsFile(e) ==
    /\ workerPc[e] = "drop"
    /\ workerPc' = [workerPc EXCEPT ![e] = "done"]
    /\ UNCHANGED <<callVars, tempFile, childVars, consumed, line, computed, waitResult, sharedVars, readerVars>>

\* run, line 112: run returns and self is dropped: the Child is released
\* (neither killed nor waited for) and the NamedTempFile deletes its file.
WorkerDrop(e) ==
    /\ workerPc[e] = "drop"
    /\ tempFile' = [tempFile EXCEPT ![e] = "removed"]
    /\ workerPc' = [workerPc EXCEPT ![e] = "done"]
    /\ UNCHANGED <<callVars, childVars, consumed, line, computed, waitResult, sharedVars, readerVars>>

\* ------------------------------------------------------ ExecutionHandle
\* state(), line 77: self.state.lock().unwrap()
StateLock(e) ==
    /\ result[e] = "Ok"
    /\ readerPc[e] = "idle"
    /\ Len(snaps[e]) < MaxSnaps
    /\ lock[e] = "free"
    /\ ~poisoned[e]
    /\ lock' = [lock EXCEPT ![e] = "reader"]
    /\ readerPc' = [readerPc EXCEPT ![e] = "locked"]
    /\ UNCHANGED <<callVars, tempFile, childVars, workerVars, output, status, poisoned, snaps>>

\* state() moving the output out of the shared state instead of cloning it.
StateReturnTakes(e) ==
    /\ readerPc[e] = "locked"
    /\ snaps' = [snaps EXCEPT ![e] = Append(@, Snapshot(e))]
    /\ output' = [output EXCEPT ![e] = <<>>]
    /\ lock' = [lock EXCEPT ![e] = "free"]
    /\ readerPc' = [readerPc EXCEPT ![e] = "idle"]
    /\ UNCHANGED <<callVars, tempFile, childVars, workerVars, status, poisoned>>

\* state(), line 77: .clone(), then the guard is dropped and the copy returned.
StateReturn(e) ==
    /\ readerPc[e] = "locked"
    /\ snaps' = [snaps EXCEPT ![e] = Append(@, Snapshot(e))]
    /\ lock' = [lock EXCEPT ![e] = "free"]
    /\ readerPc' = [readerPc EXCEPT ![e] = "idle"]
    /\ UNCHANGED <<callVars, tempFile, childVars, workerVars, output, status, poisoned>>

\* state(), line 77, on a poisoned Mutex: lock() returns Err and unwrap
\* panics in the caller; no snapshot is returned.
StatePanic(e) ==
    /\ result[e] = "Ok"
    /\ readerPc[e] = "idle"
    /\ lock[e] = "free"
    /\ poisoned[e]
    /\ readerPc' = [readerPc EXCEPT ![e] = "panicked"]
    /\ UNCHANGED <<callVars, tempFile, childVars, workerVars, sharedVars, snaps>>

\* ------------------------------------------------------------ unwinding
\* Positions of run at which a panic is injected.
PanicPoints == {"run", "read", "lock_output", "push", "try_wait", "lock_status", "set_status"}

\* The worker thread panics and unwinds: a MutexGuard it holds poisons the
\* Mutex as it is dropped, and self is dropped as on a normal return.
WorkerPanic(e) ==
    /\ workerPc[e] \in PanicPoints
    /\ poisoned' = [poisoned EXCEPT ![e] = @ \/ lock[e] = "worker"]
    /\ lock' = [lock EXCEPT ![e] = IF @ = "worker" THEN "free" ELSE @]
    /\ tempFile' = [tempFile EXCEPT ![e] = "removed"]
    /\ workerPc' = [workerPc EXCEPT ![e] = "panicked"]
    /\ UNCHANGED <<callVars, childVars, consumed, line, computed, waitResult, output, status, readerVars>>

\* ----------------------------------------------------------------- Spec
\* One call of execute and everything that follows from it.
SpecExecs == {1}

Next ==
    \E e \in SpecExecs :
        \/ Execute(e)
        \/ ChildWrite(e)
        \/ ChildCloseStdout(e)
        \/ ChildExit(e)
        \/ WorkerStart(e)
        \/ WorkerReadLine(e)
        \/ WorkerReadEof(e)
        \/ WorkerLockOutput(e)
        \/ WorkerPush(e)
        \/ WorkerTryWait(e)
        \/ WorkerLockStatus(e)
        \/ WorkerSetStatus(e)
        \/ WorkerDrop(e)
        \/ StateLock(e)
        \/ StateReturn(e)

Spec == Init /\ [][Next]_vars

\* The same program with panics of the worker thread injected.
NextPanic ==
    \/ Next
    \/ \E e \in SpecExecs :
        \/ WorkerPanic(e)
        \/ StatePanic(e)

SpecPanic == Init /\ [][NextPanic]_vars

\* The program under fair scheduling: the worker thread keeps running, a
\* child that can write, close its stdout or exit does so, a caller inside
\* state() finishes its copy, and a thread waiting for the Mutex gets it
\* when it is free again and again.
Fairness ==
    \A e \in SpecExecs :
        /\ WF_vars(ChildWrite(e))
        /\ WF_vars(ChildCloseStdout(e))
        /\ WF_vars(ChildExit(e))
        /\ WF_vars(WorkerStart(e))
        /\ WF_vars(WorkerReadLine(e))
        /\ WF_vars(WorkerReadEof(e))
        /\ SF_vars(WorkerLockOutput(e))
        /\ WF_vars(WorkerPush(e))
        /\ WF_vars(WorkerTryWait(e))
        /\ SF_vars(WorkerLockStatus(e))
        /\ WF_vars(WorkerSetStatus(e))
        /\ WF_vars(WorkerDrop(e))
        /\ WF_vars(StateReturn(e))

FairSpec == Spec /\ Fairness

\* Several executions in flight at once, each of a shell block marked for
\* execution whose script prints its own line and ends with its own exit
\* code (so that a line or a status shows whose it is), each observed
\* through its handle at most once.
IsoLine(e) == IF e = 1 THEN "a" ELSE "b"

IsoExit(e) == IF e = 1 THEN 0 ELSE 1

IsoCodes(e) ==
    {c \in Codes :
        /\ c.language = "Shell"
        /\ c.execute
        /\ c.contents.exit = IsoExit(e)
        /\ Len(c.contents.out) >= 1
        /\ \A k \in 1..Len(c.contents.out) : c.contents.out[k] = IsoLine(e)}

NextIso ==
    \E e \in Execs :
        \/ ExecuteWith(e, IsoCodes(e))
        \/ ChildWrite(e)
        \/ ChildCloseStdout(e)
        \/ ChildExit(e)
        \/ WorkerStart(e)
        \/ WorkerReadLine(e)
        \/ WorkerReadEof(e)
        \/ WorkerLockOutput(e)
        \/ WorkerPush(e)
        \/ WorkerTryWait(e)
        \/ WorkerLockStatus(e)
        \/ WorkerSetStatus(e)
        \/ WorkerDrop(e)
        \/ (snaps[e] = <<>> /\ StateLock(e))
        \/ StateReturn(e)

SpecIso == Init /\ [][NextIso]_vars

\* ============================================================== claims
\* s is a prefix of t (possibly equal).
IsPrefix(s, t) == Len(s) <= Len(t) /\ SubSeq(t, 1, Len(s)) = s

\* The longest prefix of a script's stdout that decodes line by line.
RECURSIVE DecodedPrefix(_)
DecodedPrefix(s) ==
    IF s = <<>> \/ Head(s) = InvalidLine THEN <<>>
    ELSE <<Head(s)>> \o DecodedPrefix(Tail(s))

\* The lines lines() has returned Ok to the worker so far.
Captured(e) == DecodedPrefix(SubSeq(code[e].contents.out, 1, consumed[e]))

\* Indices of the snapshots of e whose status is terminal.
Finished(e) == {i \in 1..Len(snaps[e]) : is_finished(snaps[e][i].status)}

\* The first snapshot of e with a terminal status is the i-th.
FirstFinished(e, i) == i \in Finished(e) /\ \A j \in Finished(e) : i <= j

\* C1: a code block whose language does not support execution makes execute
\* return UnsupportedExecution, with no child process spawned and no worker
\* started, whatever flags.execute is.
C1_UnsupportedLanguage ==
    \A e \in Execs :
        (result[e] # "none" /\ ~supports_execution(code[e].language)) =>
            /\ result[e] = "UnsupportedExecution"
            /\ childState[e] = "none"
            /\ workerPc[e] = "none"
            /\ tempFile[e] = "none"

\* C1 witness: an unsupported language with the flag unset was rejected as unsupported.
C1_Witness ==
    \E e \in Execs :
        /\ result[e] = "UnsupportedExecution"
        /\ code[e].language = "Rust"
        /\ ~code[e].execute

\* C2 as stated: flags.execute = false makes execute return NotExecutableCode
\* and spawn no process, for every language.
C2_Original ==
    \A e \in Execs :
        (result[e] # "none" /\ ~code[e].execute) =>
            /\ result[e] = "NotExecutableCode"
            /\ childState[e] = "none"

\* C2 amended: flags.execute = false makes execute return an error and spawn
\* no process for every language; the error is NotExecutableCode when the
\* language supports execution and UnsupportedExecution when it does not
\* (the language is checked first).
C2_FlagUnset ==
    \A e \in Execs :
        (result[e] # "none" /\ ~code[e].execute) =>
            /\ result[e] = IF supports_execution(code[e].language)
                           THEN "NotExecutableCode" ELSE "UnsupportedExecution"
            /\ childState[e] = "none"
            /\ workerPc[e] = "none"
            /\ tempFile[e] = "none"

\* C2 witness: a shell block with the flag unset was rejected as not executable.
C2_Witness ==
    \E e \in Execs :
        /\ result[e] = "NotExecutableCode"
        /\ code[e].language = "Shell"
        /\ ~code[e].execute

\* The script of e prints only decodable lines.
PrintsLines(e) == \A k \in 1..Len(code[e].contents.out) : code[e].contents.out[k] \in Lines

\* C3: for a shell block with flags.execute = true whose script prints a
\* sequence of lines and exits with status zero, once execute has succeeded
\* the first snapshot with a finished status holds exactly those lines, in
\* order, and status Success.
C3_ShellSuccess ==
    \A e \in Execs : \A i \in 1..Len(snaps[e]) :
        (/\ result[e] = "Ok"
         /\ PrintsLines(e)
         /\ code[e].contents.exit = 0
         /\ FirstFinished(e, i)) =>
            /\ snaps[e][i].output = code[e].contents.out
            /\ snaps[e][i].status = "Success"

C5_SnapshotsGrow ==
    \A e \in Execs :
        /\ \A i, j \in 1..Len(snaps[e]) :
              i < j => IsPrefix(snaps[e][i].output, snaps[e][j].output)
        /\ \A i \in 1..Len(snaps[e]) : IsPrefix(snaps[e][i].output, output[e])

\* C5 witness: two snapshots, the later one strictly longer, the earlier one not empty.
C5_Witness ==
    \E e \in Execs :
        /\ Len(snaps[e]) >= 2
        /\ Len(snaps[e][1].output) >= 1
        /\ Len(snaps[e][2].output) > Len(snaps[e][1].output)

\* C6: once a snapshot has a terminal status, every later snapshot of the
\* handle, and the shared state itself, has the same status and output.
C6_TerminalIsFinal ==
    \A e \in Execs : \A i \in Finished(e) :
        /\ \A j \in 1..Len(snaps[e]) : i < j => snaps[e][j] = snaps[e][i]
        /\ Snapshot(e) = snaps[e][i]

\* C6 witness: a second snapshot was taken after a terminal one, of an
\* execution that stopped draining early and whose child exited afterwards.
C6_Witness ==
    \E e \in Execs :
        /\ Len(snaps[e]) >= 2
        /\ 1 \in Finished(e)
        /\ consumed[e] < written[e]
        /\ childState[e] = "exited"
        /\ workerPc[e] = "done"

\* C7: the terminal status is written after the last append: a snapshot
\* with a terminal status holds every line the worker captured from the
\* child's stdout, and so does the shared state once its status is terminal.
C7_StatusAfterOutput ==
    \A e \in Execs :
        /\ \A i \in Finished(e) : snaps[e][i].output = Captured(e)
        /\ is_finished(status[e]) => (output[e] = Captured(e) /\ line[e] = NoLine)

\* C7 witness: a terminal snapshot of an execution that captured two lines.
C7_Witness ==
    \E e \in Execs : \E i \in Finished(e) : Len(Captured(e)) >= 2

\* C8: while the child process is running (spawned and not yet exited) the
\* temporary file exists.
C8_TempFileOutlivesChild ==
    \A e \in Execs : childState[e] = "running" => tempFile[e] = "exists"

\* C9: once the worker has ended, by returning or by unwinding, the
\* temporary file is gone; a failed execute leaves none behind either.
C9_TempFileReleased ==
    \A e \in Execs :
        /\ workerPc[e] \in {"done", "panicked"} => tempFile[e] = "removed"
        /\ result[e] \notin {"none", "Ok"} => tempFile[e] # "exists"

\* C9 witness: the worker returned after a Success.
C9_Witness ==
    \E e \in Execs : workerPc[e] = "done" /\ status[e] = "Success"

\* The worker of e is blocked on the child: inside lines() on an empty,
\* still open pipe.
BlockedOnChild(e) == workerPc[e] = "read" /\ consumed[e] = written[e] /\ childStdout[e]

\* C10: the worker holds the lock only for one append or one status write,
\* steps that need nothing from the child, and never while it is reading the
\* child's stdout; so a state() call of an idle caller can take the lock, or
\* the worker's holder can release it, in every state, even when the child hangs.
C10_LockNotHeldAcrossIo ==
    \A e \in Execs :
        /\ lock[e] = "worker" => workerPc[e] \in {"push", "set_status"}
        /\ lock[e] = "worker" => ENABLED (WorkerPush(e) \/ WorkerSetStatus(e))
        /\ lock[e] = "reader" => ENABLED StateReturn(e)
        /\ BlockedOnChild(e) => lock[e] # "worker"

\* C10 witness: state() holds the lock while the worker is blocked on a
\* child that has neither written nor closed its stdout.
C10_Witness ==
    \E e \in Execs :
        /\ BlockedOnChild(e)
        /\ childState[e] = "running"
        /\ readerPc[e] = "locked"

\* C11: after a panic of the worker the shared state stays readable and
\* shows a failure: the Mutex is not poisoned, no state() call panics, and
\* the status is Failure (nothing writes the status once the worker is gone,
\* so a status that is not Failure then never becomes Failure).
C11_PanicLeavesStateReadable ==
    \A e \in Execs :
        /\ readerPc[e] # "panicked"
        /\ workerPc[e] = "panicked" => (~poisoned[e] /\ status[e] = "Failure")

\* execute reached execute_shell for e: the call was made with a shell block
\* marked for execution (the match at line 25).
ReachedShell(e) ==
    result[e] # "none" /\ code[e].language = "Shell" /\ code[e].execute

\* C12: execute reports its errors before any background work starts: a
\* temp file that cannot be created, written or flushed gives TempFile with
\* no child and no worker; a failed spawn gives SpawnProcess with no worker;
\* neither returns a handle; and when the spawn succeeds execute returns Ok
\* with the worker started, so a worker or a child exists only with Ok.
C12_ErrorsAreSynchronous ==
    \A e \in Execs :
        /\ (ReachedShell(e) /\ env[e].tf # "ok") =>
              (result[e] = "TempFile" /\ childState[e] = "none" /\ workerPc[e] = "none")
        /\ (ReachedShell(e) /\ env[e].tf = "ok" /\ ~env[e].spawned) =>
              (result[e] = "SpawnProcess" /\ childState[e] = "none" /\ workerPc[e] = "none")
        /\ (ReachedShell(e) /\ env[e].tf = "ok" /\ env[e].spawned) =>
              (result[e] = "Ok" /\ childState[e] # "none" /\ workerPc[e] # "none")
        /\ result[e] # "Ok" =>
              /\ snaps[e] = <<>> /\ readerPc[e] = "idle"
              /\ childState[e] = "none" /\ workerPc[e] = "none"
              /\ output[e] = <<>> /\ status[e] = "Running"

\* C12 witness: a flush that failed was reported as TempFile and the file is gone.
C12_Witness ==
    \E e \in Execs :
        /\ ReachedShell(e)
        /\ env[e].tf = "flush_failed"
        /\ result[e] = "TempFile"
        /\ tempFile[e] = "removed"

\* C13: the shared status is terminal only when the child process has exited.
C13_StatusWaitsForExit ==
    \A e \in Execs : is_finished(status[e]) => childState[e] = "exited"

\* C14: the terminal status is Success exactly when the child's exit code is
\* zero, unless the exit status could not be retrieved (then it is Failure).
C14_SuccessIffExitZero ==
    \A e \in Execs :
        is_finished(status[e]) =>
            IF waitResult[e] = "Err" THEN status[e] = "Failure"
            ELSE (status[e] = "Success" <=> code[e].contents.exit = 0)

\* C15: the shared status changes only from Running to Success or Failure,
\* only in the worker's status write, and never again afterwards.
C15_StatusWrittenOnce ==
    [][\A e \in Execs :
          status'[e] # status[e] =>
              /\ status[e] = "Running"
              /\ is_finished(status'[e])
              /\ workerPc[e] = "set_status"
              /\ lock[e] = "worker"
              /\ workerPc'[e] = "drop"]_vars

\* C15 witness: the worker has written Failure after an unretrievable exit status.
C15_Witness ==
    \E e \in Execs :
        status[e] = "Failure" /\ waitResult[e] = "Err" /\ workerPc[e] = "drop"

\* The worker of e stopped draining on a read error.
ReadFailed(e) ==
    consumed[e] > 0 /\ code[e].contents.out[consumed[e]] = InvalidLine

\* C16: after a read error the lines appended before it are kept, and the
\* terminal status follows the child's exit code: Success for exit code
\* zero (unless the exit status could not be retrieved), Failure otherwise.
C16_ReadErrorKeepsOutputAndExitCode ==
    \A e \in Execs :
        (ReadFailed(e) /\ is_finished(status[e])) =>
            /\ output[e] = DecodedPrefix(code[e].contents.out)
            /\ waitResult[e] # "Err" =>
                  (status[e] = "Success" <=> code[e].contents.exit = 0)

\* C17: under fair scheduling, with a child that closes its stdout and
\* exits, every successful execute leads to a terminal status.
C17_StatusBecomesTerminal ==
    \A e \in Execs : (result[e] = "Ok") ~> is_finished(status[e])

\* C17 witness: the status is terminal, the child has exited after printing
\* and the worker has returned.
C17_Witness ==
    \E e \in Execs :
        /\ is_finished(status[e])
        /\ childState[e] = "exited"
        /\ written[e] >= 1
        /\ workerPc[e] = "done"
        /\ snaps[e] = <<>>

\* C18: with several executions in flight, each successful execute has its
\* own child, worker and temp file, the output of an execution (shared and
\* in its snapshots) holds only lines of its own script, in order, and its
\* status is the one its own worker computed from its own child.
C18_ExecutionsIsolated ==
    \A e \in Execs :
        /\ result[e] = "Ok" =>
              (childState[e] # "none" /\ workerPc[e] # "none" /\ tempFile[e] # "none")
        /\ IsPrefix(output[e], DecodedPrefix(code[e].contents.out))
        /\ output[e] = Captured(e) \/ Append(output[e], line[e]) = Captured(e)
        /\ waitResult[e] = "Some" =>
              computed[e] = StatusOf(childState[e] = "exited" /\ code[e].contents.exit = 0)
        /\ is_finished(status[e]) =>
              (status[e] = computed[e] /\ workerPc[e] \in {"drop", "done"})
        /\ \A i \in 1..Len(snaps[e]) :
              /\ IsPrefix(snaps[e][i].output, output[e])
              /\ snaps[e][i].status \in {"Running", status[e]}

\* C18 witness: two executions have finished with different outputs and
\* different statuses, each observed through its own handle.
C18_Witness ==
    /\ status[1] = "Success" /\ status[2] = "Failure"
    /\ output[1] # <<>> /\ output[2] # <<>>
    /\ Finished(1) # {} /\ Finished(2) # {}

\* C19: a step of state() changes neither the shared output and status nor
\* the child nor the temp file, what it returns is a copy of the shared
\* state as it is, and the shared output and status change only in steps of
\* the worker holding the lock.
C19_StateIsPureRead ==
    [][\A e \in Execs :
          /\ (readerPc'[e] # readerPc[e] \/ snaps'[e] # snaps[e]) =>
                /\ output' = output /\ status' = status
                /\ childState' = childState /\ childStdout' = childStdout
                /\ written' = written /\ tempFile' = tempFile
          /\ snaps'[e] # snaps[e] => snaps'[e] = Append(snaps[e], Snapshot(e))
          /\ (output'[e] # output[e] \/ status'[e] # status[e]) =>
                (lock[e] = "worker" /\ workerPc[e] \in {"push", "set_status"})]_vars

\* C19 witness: state() has returned a copy holding a line while the
\* execution is still running, and the shared output still holds it.
C19_Witness ==
    \E e \in Execs :
        /\ Len(snaps[e]) = 1
        /\ Len(output[e]) >= 1
        /\ snaps[e][1] = Snapshot(e)
        /\ status[e] = "Running"
        /\ readerPc[e] = "idle"

====
